---- MODULE Spec2Model ----
(***************************************************************************)
(* Selection state of the selection-card widgets: the SelectionController  *)
(* (registry variant and the variant with availableIds) and ListViewCard.  *)
(* One component instance is created with its props, then its intents are  *)
(* called; each call runs against the selection of the last render, writes *)
(* the state cell, may invoke the change listener, and the component       *)
(* re-renders before the next call.  SpecShowcase is the SelectionShowcase *)
(* page, which holds a selection cell of its own and renders one           *)
(* controller and one list, each with its own cell.                        *)
(***************************************************************************)
EXTENDS Integers, Sequences, FiniteSets, TLC

VARIABLES
    component,          \* "registry" | "showcase" (controller with availableIds) | "list"
    mode,               \* mode / selectionMode prop
    totalCount,         \* totalCount prop
    disabledIds,        \* disabledIds prop (array)
    availableIds,       \* availableIds prop: {} when absent, {array} when given
    initialSelectedIds, \* selectedIds prop, the seed of the state cell
    selectedIds,        \* the state cell (array)
    lastCall,           \* the last intent call: [op, ids]
    before,             \* safeSelectedIds the last call ran against
    notified,           \* listener invocations made by the last call
    event,              \* the record the listener received last
    gesture,            \* the user gesture behind the last call, if any
    showcaseSelectedIds, \* SelectionShowcase: its own state cell
    listSelectedIds,    \* SelectionShowcase: the cell of its ListViewCard
    reported,           \* SelectionShowcase: the record its listener received last
    rendered,           \* safeSelectedIds the current handlers closed over
    pending,            \* the calls made since the last render
    itemClicked,        \* the item the last gesture handed to onItemClick
    capture             \* the run of the pre-upgrade capture script

vars == <<component, mode, totalCount, disabledIds, availableIds,
          initialSelectedIds, selectedIds, lastCall, before, notified, event,
          gesture, showcaseSelectedIds, listSelectedIds, reported,
          rendered, pending, itemClicked, capture>>

\* the render the handlers belong to
batchVars == <<rendered, pending>>

\* what the page leaves alone: the render bookkeeping, onItemClick, which
\* the page does not pass to its list, and the capture script
idleVars == <<rendered, pending, itemClicked, capture>>

\* everything but the run of the capture script
widgetVars == <<component, mode, totalCount, disabledIds, availableIds,
                initialSelectedIds, selectedIds, lastCall, before, notified,
                event, gesture, showcaseSelectedIds, listSelectedIds, reported,
                rendered, pending, itemClicked>>

\* the state of the SelectionShowcase page around its controller
pageVars == <<showcaseSelectedIds, listSelectedIds, reported>>

props == <<component, mode, totalCount, disabledIds, availableIds,
           initialSelectedIds>>

-----------------------------------------------------------------------------
(* Bounds of the model *)

\* totalCount ranges over 0..MaxTotal
MaxTotal == 2

\* longest initial selectedIds array
MaxLen == 2

\* longest availableIds array
MaxAvail == 1

\* items of the SelectionShowcase page
MaxItems == 3

\* longest disabledIds array of the SelectionShowcase page
MaxPageDisabled == 1

\* longest availableIds array where its content is what matters
MaxAvailable == 2

\* calls made through one intents object before the component re-renders
MaxPending == 2

\* longest disabledIds array
MaxDisabled == 1

\* ids the caller passes in props and requests: one inside the generated
\* universe, one outside it
Ids == {"0", "x"}

SeqsUpTo(S, n) == UNION {[1..k -> S] : k \in 0..n}

\* id lists of the select and deselect requests
Requests == SeqsUpTo(Ids, Cardinality(Ids))

-----------------------------------------------------------------------------
(* Array helpers *)

includes(arr, id) == \E i \in DOMAIN arr : arr[i] = id

ToSet(arr) == {arr[i] : i \in DOMAIN arr}

RECURSIVE filter(_, _)
filter(arr, keep) ==
    IF arr = <<>> THEN <<>>
    ELSE IF Head(arr) \in keep
         THEN <<Head(arr)>> \o filter(Tail(arr), keep)
         ELSE filter(Tail(arr), keep)

\* arr.filter(id => !other.includes(id))
filterNotIn(arr, other) == filter(arr, ToSet(arr) \ ToSet(other))

\* [...new Set(arr)]: first occurrences, in order
RECURSIVE uniq(_)
uniq(arr) ==
    IF arr = <<>> THEN <<>>
    ELSE LET init == uniq(SubSeq(arr, 1, Len(arr) - 1))
             last == arr[Len(arr)]
         IN  IF includes(init, last) THEN init ELSE Append(init, last)

Digit(d) == <<"0", "1", "2", "3", "4", "5", "6", "7", "8", "9">>[d + 1]

\* i.toString() for a non-negative integer
RECURSIVE toString(_)
toString(i) ==
    IF i < 10 THEN Digit(i) ELSE toString(i \div 10) \o Digit(i % 10)

\* Array.from({ length: n }, (_, i) => i.toString())
rangeIds(n) == [k \in 1..n |-> toString(k - 1)]

-----------------------------------------------------------------------------
(* Listener records *)

NoEvent == [selectedIds |-> <<>>, action |-> "none", targetIds |-> {}, targetId |-> {}]

NoCall == [op |-> "none", ids |-> <<>>]

Outcome(sel, action, targets) ==
    [selectedIds |-> sel, action |-> action, targetIds |-> targets, targetId |-> {}]

Unchanged(cur) == [sel |-> cur, fired |-> 0, ev |-> NoEvent]

Fired(sel, ev) == [sel |-> sel, fired |-> 1, ev |-> ev]

-----------------------------------------------------------------------------
(* Projection *)

\* projection whose partial flag admits enabledSelectedCount = enabledCount
selectionState_partialInclusive(cur) ==
    LET enabledCount == totalCount - Len(disabledIds)
        selectedCount == Len(cur)
        enabledSelectedCount == Len(filterNotIn(cur, disabledIds))
    IN  [selectedCount |-> selectedCount,
         totalCount |-> totalCount,
         enabledCount |-> enabledCount,
         enabledSelectedCount |-> enabledSelectedCount,
         isAllSelected |->
             enabledCount > 0 /\ enabledSelectedCount = enabledCount,
         isPartiallySelected |->
             enabledSelectedCount > 0 /\ enabledSelectedCount <= enabledCount,
         isEmpty |-> selectedCount = 0]

\* projection whose all flag lacks the enabledCount > 0 guard
selectionState_allWithoutGuard(cur) ==
    LET enabledCount == totalCount - Len(disabledIds)
        selectedCount == Len(cur)
        enabledSelectedCount == Len(filterNotIn(cur, disabledIds))
    IN  [selectedCount |-> selectedCount,
         totalCount |-> totalCount,
         enabledCount |-> enabledCount,
         enabledSelectedCount |-> enabledSelectedCount,
         isAllSelected |-> enabledSelectedCount = enabledCount,
         isPartiallySelected |->
             enabledSelectedCount > 0 /\ enabledSelectedCount < enabledCount,
         isEmpty |-> selectedCount = 0]

selectionState(cur) ==
    LET enabledCount == totalCount - Len(disabledIds)
        selectedCount == Len(cur)
        enabledSelectedCount == Len(filterNotIn(cur, disabledIds))
    IN  [selectedCount |-> selectedCount,
         totalCount |-> totalCount,
         enabledCount |-> enabledCount,
         enabledSelectedCount |-> enabledSelectedCount,
         isAllSelected |->
             enabledCount > 0 /\ enabledSelectedCount = enabledCount,
         isPartiallySelected |->
             enabledSelectedCount > 0 /\ enabledSelectedCount < enabledCount,
         isEmpty |-> selectedCount = 0]

-----------------------------------------------------------------------------
(* SelectionController intents; cur is safeSelectedIds of the render *)

\* select that unions in single mode too
select_alwaysUnion(cur, ids) ==
    LET validIds == filterNotIn(ids, disabledIds)
    IN  IF Len(validIds) = 0 THEN Unchanged(cur)
        ELSE LET newSelectedIds == uniq(cur \o validIds)
             IN  Fired(newSelectedIds,
                       Outcome(newSelectedIds, "select", {validIds}))

\* select that replaces the selection in multi mode too
select_alwaysReplace(cur, ids) ==
    LET validIds == filterNotIn(ids, disabledIds)
    IN  IF Len(validIds) = 0 THEN Unchanged(cur)
        ELSE Fired(<<validIds[1]>>,
                   Outcome(<<validIds[1]>>, "select", {validIds}))

\* select that does not filter the disabled ids out of the request
select_noDisabledFilter(cur, ids) ==
    IF Len(ids) = 0 THEN Unchanged(cur)
    ELSE LET newSelectedIds ==
                 IF mode = "single" THEN <<ids[1]>> ELSE uniq(cur \o ids)
         IN  Fired(newSelectedIds, Outcome(newSelectedIds, "select", {ids}))

\* select that appends in multi mode without removing repeated ids
select_noDedupe(cur, ids) ==
    LET validIds == filterNotIn(ids, disabledIds)
    IN  IF Len(validIds) = 0 THEN Unchanged(cur)
        ELSE LET newSelectedIds ==
                     IF mode = "single" THEN <<validIds[1]>>
                     ELSE cur \o validIds
             IN  Fired(newSelectedIds,
                       Outcome(newSelectedIds, "select", {validIds}))

\* select that keeps the last valid id in single mode
select_lastWins(cur, ids) ==
    LET validIds == filterNotIn(ids, disabledIds)
    IN  IF Len(validIds) = 0 THEN Unchanged(cur)
        ELSE LET newSelectedIds ==
                     IF mode = "single" THEN <<validIds[Len(validIds)]>>
                     ELSE uniq(cur \o validIds)
             IN  Fired(newSelectedIds,
                       Outcome(newSelectedIds, "select", {validIds}))

\* select that also drops the ids outside the generated universe
select_onlyKnownIds(cur, ids) ==
    LET validIds == filter(filterNotIn(ids, disabledIds),
                           ToSet(rangeIds(totalCount)))
    IN  IF Len(validIds) = 0 THEN Unchanged(cur)
        ELSE LET newSelectedIds ==
                     IF mode = "single" THEN <<validIds[1]>>
                     ELSE uniq(cur \o validIds)
             IN  Fired(newSelectedIds,
                       Outcome(newSelectedIds, "select", {validIds}))

select(cur, ids) ==
    LET validIds == filterNotIn(ids, disabledIds)
    IN  IF Len(validIds) = 0 THEN Unchanged(cur)
        ELSE LET newSelectedIds ==
                     IF mode = "single" THEN <<validIds[1]>>
                     ELSE uniq(cur \o validIds)
             IN  Fired(newSelectedIds,
                       Outcome(newSelectedIds, "select", {validIds}))

\* deselect that applies the disabled filter to the request
deselect_skipsDisabled(cur, ids) ==
    LET newSelectedIds == filterNotIn(cur, filterNotIn(ids, disabledIds))
    IN  Fired(newSelectedIds, Outcome(newSelectedIds, "deselect", {ids}))

\* deselect that stays silent when it removes nothing
deselect_quietNoop(cur, ids) ==
    LET newSelectedIds == filterNotIn(cur, ids)
    IN  IF newSelectedIds = cur THEN Unchanged(cur)
        ELSE Fired(newSelectedIds, Outcome(newSelectedIds, "deselect", {ids}))

\* deselect that reports only the ids it removed
deselect_reportsRemoved(cur, ids) ==
    LET newSelectedIds == filterNotIn(cur, ids)
    IN  Fired(newSelectedIds,
              Outcome(newSelectedIds, "deselect", {filter(ids, ToSet(cur))}))

\* deselect that hands the listener the selection it started from
deselect_reportsPrevious(cur, ids) ==
    LET newSelectedIds == filterNotIn(cur, ids)
    IN  Fired(newSelectedIds, Outcome(cur, "deselect", {ids}))

deselect(cur, ids) ==
    LET newSelectedIds == filterNotIn(cur, ids)
    IN  Fired(newSelectedIds, Outcome(newSelectedIds, "deselect", {ids}))

\* a variant with availableIds that falls back to no ids at all
allIdsOf_noFallback(variant) ==
    IF variant = "showcase"
    THEN IF availableIds # {} THEN CHOOSE a \in availableIds : TRUE ELSE <<>>
    ELSE rangeIds(totalCount)

\* the universe selectAll enumerates in one variant of the controller:
\* availableIds ?? range in the variant that has the prop, the range in
\* the registry variant
allIdsOf(variant) ==
    IF variant = "showcase" /\ availableIds # {}
    THEN CHOOSE a \in availableIds : TRUE
    ELSE rangeIds(totalCount)

\* the universe selectAll enumerates
allIds == allIdsOf(component)

\* selectAll that enumerates one id too few
selectAll_dropsLast(cur) ==
    IF mode = "single" THEN Unchanged(cur)
    ELSE LET enabledIds ==
                 filterNotIn(SubSeq(allIds, 1, Len(allIds) - 1), disabledIds)
         IN  Fired(enabledIds, Outcome(enabledIds, "selectAll", {}))

\* selectAll that adds to the current selection
selectAll_additive(cur) ==
    IF mode = "single" THEN Unchanged(cur)
    ELSE LET enabledIds == uniq(cur \o filterNotIn(allIds, disabledIds))
         IN  Fired(enabledIds, Outcome(enabledIds, "selectAll", {}))

\* selectAll without the single-mode return
selectAll_ignoresMode(cur) ==
    LET enabledIds == filterNotIn(allIds, disabledIds)
    IN  Fired(enabledIds, Outcome(enabledIds, "selectAll", {}))

\* selectAll that reports the ids it selected as targetIds
selectAll_reportsTargets(cur) ==
    IF mode = "single" THEN Unchanged(cur)
    ELSE LET enabledIds == filterNotIn(allIds, disabledIds)
         IN  Fired(enabledIds, Outcome(enabledIds, "selectAll", {enabledIds}))

\* selectAll that does not filter the disabled ids out of the universe
selectAll_noDisabledFilter(cur) ==
    IF mode = "single" THEN Unchanged(cur)
    ELSE Fired(allIds, Outcome(allIds, "selectAll", {}))

selectAll(cur) ==
    IF mode = "single" THEN Unchanged(cur)
    ELSE LET enabledIds == filterNotIn(allIds, disabledIds)
         IN  Fired(enabledIds, Outcome(enabledIds, "selectAll", {}))

\* clear that leaves the disabled ids selected
clear_keepsDisabled(cur) ==
    LET kept == filter(cur, ToSet(disabledIds))
    IN  Fired(kept, Outcome(kept, "clear", {}))

clear(cur) == Fired(<<>>, Outcome(<<>>, "clear", {}))

toggle(cur, id) ==
    IF includes(disabledIds, id) THEN Unchanged(cur)
    ELSE IF includes(cur, id) THEN deselect(cur, <<id>>)
         ELSE select(cur, <<id>>)

-----------------------------------------------------------------------------
(* SelectionController gestures *)

NoGesture == [kind |-> "none", key |-> "", modifier |-> FALSE]

KeyGesture(key, modifier) == [kind |-> "key", key |-> key, modifier |-> modifier]

CheckboxGesture == [kind |-> "checkbox", key |-> "", modifier |-> FALSE]

ButtonGesture(name) == [kind |-> "button", key |-> name, modifier |-> FALSE]

\* keys of the keydown events; modifier is ctrlKey || metaKey
Keys == {"a", "A", "Escape", "Tab"}

\* the intent a gesture ends in, with its result
Intent(op, r) == [op |-> op, r |-> r]

NoIntent(cur) == Intent("none", Unchanged(cur))

\* Ctrl/Cmd+A that always selects all
handleKeyDown_alwaysSelectAll(cur, key, modifier) ==
    IF key \in {"a", "A"}
    THEN IF modifier /\ mode = "multi"
         THEN Intent("selectAll", selectAll(cur))
         ELSE NoIntent(cur)
    ELSE IF key = "Escape" THEN Intent("clear", clear(cur))
         ELSE NoIntent(cur)

handleKeyDown(cur, key, modifier) ==
    IF key \in {"a", "A"}
    THEN IF modifier /\ mode = "multi"
         THEN IF selectionState(cur).isAllSelected
              THEN Intent("clear", clear(cur))
              ELSE Intent("selectAll", selectAll(cur))
         ELSE NoIntent(cur)
    ELSE IF key = "Escape" THEN Intent("clear", clear(cur))
         ELSE NoIntent(cur)

\* onChange of the master checkbox
masterCheckboxChange(cur) ==
    IF selectionState(cur).isAllSelected
    THEN Intent("clear", clear(cur))
    ELSE Intent("selectAll", selectAll(cur))

\* the master checkbox is rendered in multi mode, disabled on totalCount 0
MasterCheckboxEnabled == mode = "multi" /\ totalCount # 0

-----------------------------------------------------------------------------
(* ListViewCard *)

\* list handler that reports the requested action instead of finalAction
handleSelectionChange_reportsRequested(cur, targetId, action) ==
    IF mode = "none" \/ includes(disabledIds, targetId) THEN Unchanged(cur)
    ELSE LET newSelectedIds ==
                 IF includes(cur, targetId)
                 THEN filter(cur, ToSet(cur) \ {targetId})
                 ELSE IF mode = "single" THEN <<targetId>>
                      ELSE Append(cur, targetId)
         IN  Fired(newSelectedIds,
                   [selectedIds |-> newSelectedIds, action |-> action,
                    targetIds |-> {}, targetId |-> {targetId}])

\* list handler whose toggle in single mode always selects the target
handleSelectionChange_singleAlwaysSelects(cur, targetId, action) ==
    IF mode = "none" \/ includes(disabledIds, targetId) THEN Unchanged(cur)
    ELSE LET toggledOn == mode = "single" \/ ~includes(cur, targetId)
             newSelectedIds ==
                 IF ~toggledOn THEN filter(cur, ToSet(cur) \ {targetId})
                 ELSE IF mode = "single" THEN <<targetId>>
                      ELSE Append(cur, targetId)
         IN  Fired(newSelectedIds,
                   [selectedIds |-> newSelectedIds,
                    action |-> IF toggledOn THEN "select" ELSE "deselect",
                    targetIds |-> {}, targetId |-> {targetId}])

handleSelectionChange(cur, targetId, action) ==
    IF mode = "none" \/ includes(disabledIds, targetId) THEN Unchanged(cur)
    ELSE LET removed == filter(cur, ToSet(cur) \ {targetId})
             toggledOn == ~includes(cur, targetId)
             newSelectedIds ==
                 IF action = "toggle"
                 THEN IF ~toggledOn THEN removed
                      ELSE IF mode = "single" THEN <<targetId>>
                           ELSE Append(cur, targetId)
                 ELSE IF action = "select"
                      THEN IF mode = "single" THEN <<targetId>>
                           ELSE uniq(Append(cur, targetId))
                      ELSE removed
             finalAction ==
                 IF action = "toggle"
                 THEN IF toggledOn THEN "select" ELSE "deselect"
                 ELSE action
         IN  Fired(newSelectedIds,
                   [selectedIds |-> newSelectedIds, action |-> finalAction,
                    targetIds |-> {}, targetId |-> {targetId}])

\* gestures on one item of the list
ItemClickGesture(isCheckboxClick) ==
    [kind |-> "itemClick", key |-> "", modifier |-> isCheckboxClick]

ItemKeyGesture(key, onCheckbox) ==
    [kind |-> "itemKey", key |-> key, modifier |-> onCheckbox]

ItemCheckboxGesture == [kind |-> "itemCheckbox", key |-> "", modifier |-> TRUE]

\* keys of the keydown events on an item
ItemKeys == {" ", "Enter", "Tab"}

\* what an item gesture did: the handler call, if any, and onItemClick
ItemToggled(id, r, clicked) ==
    [op |-> "toggle", ids |-> <<id>>, r |-> r, clicked |-> clicked]

ItemUntouched(cur, clicked) ==
    [op |-> "none", ids |-> <<>>, r |-> Unchanged(cur), clicked |-> clicked]

\* item click that treats selectionMode none as single
handleItemClick_ignoresNone(cur, id, isCheckboxClick) ==
    IF isCheckboxClick \/ mode # "multi"
    THEN ItemToggled(id,
             IF includes(disabledIds, id) THEN Unchanged(cur)
             ELSE IF includes(cur, id)
                  THEN LET kept == filter(cur, ToSet(cur) \ {id})
                       IN  Fired(kept, [selectedIds |-> kept,
                                        action |-> "deselect",
                                        targetIds |-> {}, targetId |-> {id}])
                  ELSE LET grown == IF mode = "multi" THEN Append(cur, id)
                                    ELSE <<id>>
                       IN  Fired(grown, [selectedIds |-> grown,
                                         action |-> "select",
                                         targetIds |-> {}, targetId |-> {id}]),
             {id})
    ELSE ItemUntouched(cur, {id})

handleItemClick(cur, id, isCheckboxClick) ==
    IF mode # "none" /\ (isCheckboxClick \/ mode = "single")
    THEN ItemToggled(id, handleSelectionChange(cur, id, "toggle"), {id})
    ELSE ItemUntouched(cur, {id})

\* handleKeyDown of the list; onCheckbox is a target that is the checkbox
handleItemKeyDown(cur, id, key, onCheckbox) ==
    IF key \in {" ", "Enter"} /\ ~onCheckbox
    THEN IF mode # "none"
         THEN ItemToggled(id, handleSelectionChange(cur, id, "toggle"), {id})
         ELSE ItemUntouched(cur, {id})
    ELSE ItemUntouched(cur, {})

\* an item's checkbox is rendered in multi mode, disabled with its item
ItemCheckboxEnabled(id) == mode = "multi" /\ ~includes(disabledIds, id)

-----------------------------------------------------------------------------
(* The pre-upgrade capture script *)

\* package names of the dependency maps
Names == {"react", "zod"}

\* a dependency map is modelled by its keys; a field of package.json is
\* absent ({}) or holds one map ({m})
Fields == {{}} \cup {{m} : m \in SUBSET Names}

\* the values JSON.parse can return for package.json
NoFields == [dependencies |-> {}, devDependencies |-> {}]

Parsed ==
    {[kind |-> "null", fields |-> NoFields],
     [kind |-> "string", fields |-> NoFields]}
    \cup {[kind |-> "object",
           fields |-> [dependencies |-> d, devDependencies |-> v]] :
              d \in Fields, v \in Fields}

\* the text of package.json: JSON of a value, or not JSON at all
Texts == {[json |-> TRUE, value |-> p] : p \in Parsed}
         \cup {[json |-> FALSE, value |-> [kind |-> "null", fields |-> NoFields]]}

\* no run of the script
NoCapture == [pc |-> "idle"]

\* a run at its first statement: package.json exists or not and holds
\* text, and the two output files exist or not
NewCapture(exists, text, stateFileBefore, copyFileBefore) ==
    [pc |-> "validate", exists |-> exists, text |-> text,
     stateFileBefore |-> stateFileBefore, copyFileBefore |-> copyFileBefore,
     packageJson |-> {}, state |-> {}, written |-> <<>>, exitCode |-> {},
     success |-> {}]

\* existsSync("package.json")
validatePackageJson(run) == run.exists

\* reader that takes text that is not JSON for an empty object
readPackageJson_swallowsError(run, readOk) ==
    IF ~readOk THEN {}
    ELSE IF ~run.text.json
         THEN {[kind |-> "object", fields |-> NoFields]}
         ELSE {run.text.value}

\* JSON.parse(readFileSync("package.json")): the value, or {} when the
\* read or the parse throws
readPackageJson(run, readOk) ==
    IF ~readOk \/ ~run.text.json THEN {} ELSE {run.text.value}

\* field || {}
orEmpty(field) == IF field = {} THEN {} ELSE CHOOSE m \in field : TRUE

\* the PreUpgradeState built from the parsed value, or {} when reading a
\* property of null throws
buildState(packageJson) ==
    IF packageJson.kind = "null" THEN {}
    ELSE {[dependencies |-> orEmpty(packageJson.fields.dependencies),
           devDependencies |-> orEmpty(packageJson.fields.devDependencies),
           timestamp |-> "now"]}

\* Object.keys(dependencies).length + Object.keys(devDependencies).length
totalDeps(state) ==
    Cardinality(state.dependencies) + Cardinality(state.devDependencies)

\* process.exit(1)
Exit1(run) == [run EXCEPT !.pc = "exited", !.exitCode = {1}]

-----------------------------------------------------------------------------
(* The state machine *)

\* nothing reported to the listener of the SelectionShowcase page
NoReport == [selectedIds |-> <<>>, mode |-> "none", totalCount |-> 0,
             action |-> "none"]

IsController == component \in {"registry", "showcase"}

Init ==
    /\ component \in {"registry", "showcase", "list"}
    /\ mode \in (IF component = "list" THEN {"none", "single", "multi"}
                 ELSE {"single", "multi"})
    /\ totalCount \in (IF component = "list" THEN {0} ELSE 0..MaxTotal)
    /\ disabledIds \in SeqsUpTo(Ids, MaxDisabled)
    /\ availableIds \in (IF component = "showcase"
                         THEN {{}} \cup {{a} : a \in SeqsUpTo(Ids, MaxAvail)}
                         ELSE {{}})
    /\ initialSelectedIds \in SeqsUpTo(Ids, MaxLen)
    /\ selectedIds = initialSelectedIds
    /\ lastCall = NoCall
    /\ before = initialSelectedIds
    /\ notified = 0
    /\ event = NoEvent
    /\ gesture = NoGesture
    /\ showcaseSelectedIds = <<>>
    /\ listSelectedIds = <<>>
    /\ reported = NoReport
    /\ rendered = initialSelectedIds
    /\ pending = <<>>
    /\ itemClicked = {}
    /\ capture = NoCapture

\* one intent call followed by the re-render
Call(op, ids, r) ==
    /\ selectedIds' = r.sel
    /\ notified' = r.fired
    /\ event' = r.ev
    /\ before' = selectedIds
    /\ lastCall' = [op |-> op, ids |-> ids]
    /\ rendered' = r.sel
    /\ pending' = <<>>
    /\ UNCHANGED props

\* a call made through the intents object of a stand-alone component
ByIntent ==
    gesture' = NoGesture /\ itemClicked' = {} /\ UNCHANGED <<pageVars, capture>>

\* a call made by a gesture on a stand-alone component
ByGesture(g) ==
    gesture' = g /\ itemClicked' = {} /\ UNCHANGED <<pageVars, capture>>

\* a call made by a gesture on an item of a stand-alone list
ByItemGesture(g, clicked) ==
    gesture' = g /\ itemClicked' = clicked /\ UNCHANGED <<pageVars, capture>>

Select ==
    /\ IsController
    /\ \E ids \in Requests :
           Call("select", ids, select(selectedIds, ids))
    /\ ByIntent

Deselect ==
    /\ IsController
    /\ \E ids \in Requests :
           Call("deselect", ids, deselect(selectedIds, ids))
    /\ ByIntent

SelectAll ==
    /\ IsController
    /\ Call("selectAll", <<>>, selectAll(selectedIds))
    /\ ByIntent

Clear ==
    /\ IsController
    /\ Call("clear", <<>>, clear(selectedIds))
    /\ ByIntent

Toggle ==
    /\ IsController
    /\ \E id \in Ids : Call("toggle", <<id>>, toggle(selectedIds, id))
    /\ ByIntent

ListToggle ==
    /\ component = "list"
    /\ \E id \in Ids :
           Call("toggle", <<id>>, handleSelectionChange(selectedIds, id, "toggle"))
    /\ ByIntent

\* a click on an item of the list, on its checkbox or elsewhere
ListClick ==
    /\ component = "list"
    /\ \E id \in Ids, isCheckboxClick \in BOOLEAN :
           /\ isCheckboxClick => ItemCheckboxEnabled(id)
           /\ LET h == handleItemClick(selectedIds, id, isCheckboxClick)
              IN  /\ Call(h.op, h.ids, h.r)
                  /\ ByItemGesture(ItemClickGesture(isCheckboxClick), h.clicked)

\* a keydown on an item of the list
ListKeyDown ==
    /\ component = "list"
    /\ \E id \in Ids, key \in ItemKeys, onCheckbox \in BOOLEAN :
           /\ onCheckbox => ItemCheckboxEnabled(id)
           /\ LET h == handleItemKeyDown(selectedIds, id, key, onCheckbox)
              IN  /\ Call(h.op, h.ids, h.r)
                  /\ ByItemGesture(ItemKeyGesture(key, onCheckbox), h.clicked)

\* onChange of an item's checkbox
ListCheckboxChange ==
    /\ component = "list"
    /\ \E id \in Ids :
           /\ ItemCheckboxEnabled(id)
           /\ Call("toggle", <<id>>,
                   handleSelectionChange(selectedIds, id, "toggle"))
    /\ ByItemGesture(ItemCheckboxGesture, {})

\* a keydown on the controller's toolbar
KeyDown ==
    /\ IsController
    /\ \E key \in Keys, modifier \in BOOLEAN :
           LET h == handleKeyDown(selectedIds, key, modifier)
           IN  /\ Call(h.op, <<>>, h.r)
               /\ ByGesture(KeyGesture(key, modifier))

\* a change of the master checkbox
MasterCheckbox ==
    /\ IsController
    /\ MasterCheckboxEnabled
    /\ LET h == masterCheckboxChange(selectedIds)
       IN  Call(h.op, <<>>, h.r)
    /\ ByGesture(CheckboxGesture)

Next ==
    \/ Select
    \/ Deselect
    \/ SelectAll
    \/ Clear
    \/ Toggle
    \/ ListToggle
    \/ ListClick
    \/ ListKeyDown
    \/ ListCheckboxChange
    \/ KeyDown
    \/ MasterCheckbox

Spec == Init /\ [][Next]_vars

\* the duplicate-free arrays among a set of arrays
DuplicateFree(arrs) == {a \in arrs : Cardinality(ToSet(a)) = Len(a)}

\* components created with a duplicate-free selection and, for the variant
\* that takes one, an available list of any content
InitAvailable ==
    /\ component \in {"registry", "showcase", "list"}
    /\ mode \in (IF component = "list" THEN {"none", "single", "multi"}
                 ELSE {"single", "multi"})
    /\ totalCount \in (IF component = "list" THEN {0} ELSE 0..MaxTotal)
    /\ disabledIds \in SeqsUpTo(Ids, MaxDisabled)
    /\ availableIds \in (IF component = "showcase"
                         THEN {{}} \cup {{a} : a \in SeqsUpTo(Ids, MaxAvailable)}
                         ELSE {{}})
    /\ initialSelectedIds \in DuplicateFree(SeqsUpTo(Ids, MaxLen))
    /\ selectedIds = initialSelectedIds
    /\ lastCall = NoCall
    /\ before = initialSelectedIds
    /\ notified = 0
    /\ event = NoEvent
    /\ gesture = NoGesture
    /\ showcaseSelectedIds = <<>>
    /\ listSelectedIds = <<>>
    /\ reported = NoReport
    /\ rendered = initialSelectedIds
    /\ pending = <<>>
    /\ itemClicked = {}
    /\ capture = NoCapture

SpecAvailable == InitAvailable /\ [][Next]_vars

-----------------------------------------------------------------------------
(* Calls between renders: the handlers of one render all read rendered,   *)
(* the safeSelectedIds they closed over, and each writes the state cell;   *)
(* the next render hands the cell to new handlers.                         *)

InitBatch ==
    /\ component \in {"registry", "list"}
    /\ mode \in (IF component = "list" THEN {"none", "single", "multi"}
                 ELSE {"single", "multi"})
    /\ totalCount \in (IF component = "list" THEN {0} ELSE 0..MaxTotal)
    /\ disabledIds \in SeqsUpTo(Ids, MaxDisabled)
    /\ availableIds = {}
    /\ initialSelectedIds \in SeqsUpTo(Ids, MaxLen)
    /\ selectedIds = initialSelectedIds
    /\ lastCall = NoCall
    /\ before = initialSelectedIds
    /\ notified = 0
    /\ event = NoEvent
    /\ gesture = NoGesture
    /\ showcaseSelectedIds = <<>>
    /\ listSelectedIds = <<>>
    /\ reported = NoReport
    /\ rendered = initialSelectedIds
    /\ pending = <<>>
    /\ itemClicked = {}
    /\ capture = NoCapture

\* one call of a handler of the current render, with no render after it
BatchCall(op, ids, r) ==
    /\ Len(pending) < MaxPending
    /\ selectedIds' = IF r.fired = 1 THEN r.sel ELSE selectedIds
    /\ notified' = r.fired
    /\ event' = r.ev
    /\ before' = selectedIds
    /\ lastCall' = [op |-> op, ids |-> ids]
    /\ pending' = Append(pending, [op |-> op, ids |-> ids, ev |-> r.ev])
    /\ gesture' = NoGesture
    /\ UNCHANGED <<props, pageVars, rendered, itemClicked, capture>>

BatchSelect ==
    /\ IsController
    /\ \E ids \in Requests : BatchCall("select", ids, select(rendered, ids))

BatchDeselect ==
    /\ IsController
    /\ \E ids \in Requests : BatchCall("deselect", ids, deselect(rendered, ids))

BatchSelectAll ==
    /\ IsController
    /\ BatchCall("selectAll", <<>>, selectAll(rendered))

BatchClear ==
    /\ IsController
    /\ BatchCall("clear", <<>>, clear(rendered))

BatchToggle ==
    /\ IsController
    /\ \E id \in Ids : BatchCall("toggle", <<id>>, toggle(rendered, id))

BatchListToggle ==
    /\ component = "list"
    /\ \E id \in Ids :
           BatchCall("toggle", <<id>>,
                     handleSelectionChange(rendered, id, "toggle"))

\* the component re-renders: new handlers close over the stored selection
Render ==
    /\ pending # <<>>
    /\ rendered' = selectedIds
    /\ pending' = <<>>
    /\ UNCHANGED <<props, pageVars, selectedIds, lastCall, before, notified,
                   event, gesture, itemClicked, capture>>

NextBatch ==
    \/ BatchSelect
    \/ BatchDeselect
    \/ BatchSelectAll
    \/ BatchClear
    \/ BatchToggle
    \/ BatchListToggle
    \/ Render

SpecBatch == InitBatch /\ [][NextBatch]_vars

-----------------------------------------------------------------------------
(* One run of the capture script in a directory whose package.json is     *)
(* missing or holds some text, and which may hold the two output files     *)
(* of an earlier run.  File system calls can throw.                        *)

InitCapture ==
    /\ component = "script"
    /\ mode = "none"
    /\ totalCount = 0
    /\ disabledIds = <<>>
    /\ availableIds = {}
    /\ initialSelectedIds = <<>>
    /\ selectedIds = <<>>
    /\ lastCall = NoCall
    /\ before = <<>>
    /\ notified = 0
    /\ event = NoEvent
    /\ gesture = NoGesture
    /\ showcaseSelectedIds = <<>>
    /\ listSelectedIds = <<>>
    /\ reported = NoReport
    /\ rendered = <<>>
    /\ pending = <<>>
    /\ itemClicked = {}
    /\ \E exists \in BOOLEAN, text \in Texts, s \in BOOLEAN, c \in BOOLEAN :
           /\ ~exists => ~text.json
           /\ capture = NewCapture(exists, text, s, c)

\* validatePackageJson()
Validate ==
    /\ capture.pc = "validate"
    /\ capture' = IF validatePackageJson(capture)
                  THEN [capture EXCEPT !.pc = "read"]
                  ELSE Exit1(capture)
    /\ UNCHANGED widgetVars

\* const packageJson = readPackageJson()
Read ==
    /\ capture.pc = "read"
    /\ \E readOk \in BOOLEAN :
           LET packageJson == readPackageJson(capture, readOk)
           IN  capture' = IF packageJson = {} THEN Exit1(capture)
                          ELSE [capture EXCEPT !.pc = "build",
                                               !.packageJson = packageJson]
    /\ UNCHANGED widgetVars

\* const state = {...}; a TypeError lands in the catch of capturePreUpgrade
Build ==
    /\ capture.pc = "build"
    /\ LET state == buildState(CHOOSE p \in capture.packageJson : TRUE)
       IN  capture' = IF state = {} THEN Exit1(capture)
                      ELSE [capture EXCEPT !.pc = "saveState", !.state = state]
    /\ UNCHANGED widgetVars

\* writeFileSync("pre-upgrade-state.json", ...)
WriteState ==
    /\ capture.pc = "saveState"
    /\ \E writeOk \in BOOLEAN :
           capture' = IF ~writeOk THEN Exit1(capture)
                      ELSE [capture EXCEPT
                               !.pc = "saveCopy",
                               !.written = Append(@, "pre-upgrade-state.json")]
    /\ UNCHANGED widgetVars

\* writeFileSync("package.json.before", readFileSync("package.json"))
WriteCopy ==
    /\ capture.pc = "saveCopy"
    /\ \E readOk \in BOOLEAN, writeOk \in BOOLEAN :
           capture' = IF ~readOk \/ ~writeOk THEN Exit1(capture)
                      ELSE [capture EXCEPT
                               !.pc = "report",
                               !.written = Append(@, "package.json.before")]
    /\ UNCHANGED widgetVars

\* the success message; the process then ends with code 0
ReportSuccess ==
    /\ capture.pc = "report"
    /\ capture' = [capture EXCEPT
                      !.pc = "exited",
                      !.exitCode = {0},
                      !.success = {totalDeps(CHOOSE st \in capture.state : TRUE)}]
    /\ UNCHANGED widgetVars

NextCapture ==
    \/ Validate
    \/ Read
    \/ Build
    \/ WriteState
    \/ WriteCopy
    \/ ReportSuccess

SpecCapture == InitCapture /\ [][NextCapture]_vars

-----------------------------------------------------------------------------
(* SelectionShowcase: one page cell, one SelectionController and one       *)
(* ListViewCard.  Both children receive the page cell as their selectedIds *)
(* prop, which seeds their own cells when they are created; selectedIds is *)
(* the controller's cell and listSelectedIds the list's.                   *)

\* ids of the generated sample items: `item-${i + 1}`
sampleItems == [i \in 1..MaxItems |-> "item-" \o toString(i)]

\* mode toggle that keeps the last selected id
handleModeChange_keepsLast(cur, newMode) ==
    IF newMode = "single" /\ Len(cur) > 1 THEN <<cur[Len(cur)]>> ELSE cur

\* the page cell after handleModeChange(newMode)
handleModeChange(cur, newMode) ==
    IF newMode = "single" /\ Len(cur) > 1 THEN <<cur[1]>> ELSE cur

\* the record the page hands to its onSelectionChange
Report(ev) ==
    [selectedIds |-> ev.selectedIds, mode |-> mode, totalCount |-> totalCount,
     action |-> ev.action]

\* the controller's onChange, run when its intent fired the listener
handleControllerSelectionChange(r) ==
    IF r.fired = 1
    THEN showcaseSelectedIds' = r.ev.selectedIds /\ reported' = Report(r.ev)
    ELSE UNCHANGED <<showcaseSelectedIds, reported>>

\* the list's onSelectionChange, run when its handler fired the listener
handleListSelectionChange(r) ==
    IF r.fired = 1
    THEN showcaseSelectedIds' = r.ev.selectedIds /\ reported' = Report(r.ev)
    ELSE UNCHANGED <<showcaseSelectedIds, reported>>

InitShowcase ==
    /\ component = "showcase"
    /\ mode \in {"single", "multi"}
    /\ totalCount = Len(sampleItems)
    /\ disabledIds \in SeqsUpTo(ToSet(sampleItems), MaxPageDisabled)
    /\ availableIds = {sampleItems}
    /\ initialSelectedIds = <<>>
    /\ showcaseSelectedIds = <<>>
    /\ selectedIds = showcaseSelectedIds
    /\ listSelectedIds = showcaseSelectedIds
    /\ lastCall = NoCall
    /\ before = <<>>
    /\ notified = 0
    /\ event = NoEvent
    /\ gesture = NoGesture
    /\ reported = NoReport
    /\ rendered = <<>>
    /\ pending = <<>>
    /\ itemClicked = {}
    /\ capture = NoCapture

\* a gesture on the page's controller followed by the re-render
ControllerCall(h, g) ==
    /\ selectedIds' = h.r.sel
    /\ handleControllerSelectionChange(h.r)
    /\ notified' = h.r.fired
    /\ event' = h.r.ev
    /\ before' = selectedIds
    /\ lastCall' = [op |-> h.op, ids |-> <<>>]
    /\ gesture' = g
    /\ UNCHANGED <<props, listSelectedIds, idleVars>>

PageKeyDown ==
    /\ IsController
    /\ \E key \in Keys, modifier \in BOOLEAN :
           ControllerCall(handleKeyDown(selectedIds, key, modifier),
                          KeyGesture(key, modifier))

PageMasterCheckbox ==
    /\ MasterCheckboxEnabled
    /\ ControllerCall(masterCheckboxChange(selectedIds), CheckboxGesture)

\* the Select All button: shown in multi mode, disabled when all selected
PageSelectAllButton ==
    /\ mode = "multi"
    /\ ~selectionState(selectedIds).isAllSelected
    /\ totalCount # 0
    /\ ControllerCall(Intent("selectAll", selectAll(selectedIds)),
                      ButtonGesture("selectAll"))

\* the Clear button: disabled or hidden when nothing is selected
PageClearButton ==
    /\ ~selectionState(selectedIds).isEmpty
    /\ ControllerCall(Intent("clear", clear(selectedIds)),
                      ButtonGesture("clear"))

\* a click, Enter/Space or checkbox change on one item of the page's list
PageListToggle ==
    \E id \in ToSet(sampleItems) :
        LET r == handleSelectionChange(listSelectedIds, id, "toggle")
        IN  /\ listSelectedIds' = r.sel
            /\ handleListSelectionChange(r)
            /\ notified' = r.fired
            /\ event' = r.ev
            /\ before' = listSelectedIds
            /\ lastCall' = [op |-> "toggle", ids |-> <<id>>]
            /\ gesture' = [kind |-> "list", key |-> id, modifier |-> FALSE]
            /\ UNCHANGED <<props, selectedIds, idleVars>>

\* a click on one of the two mode buttons
PageModeChange ==
    \E newMode \in {"single", "multi"} :
        /\ mode' = newMode
        /\ showcaseSelectedIds' = handleModeChange(showcaseSelectedIds, newMode)
        /\ before' = showcaseSelectedIds
        /\ lastCall' = [op |-> "modeChange", ids |-> <<newMode>>]
        /\ gesture' = ButtonGesture(newMode)
        /\ notified' = 0
        /\ event' = NoEvent
        /\ UNCHANGED <<component, totalCount, disabledIds, availableIds,
                       initialSelectedIds, selectedIds, listSelectedIds,
                       reported, idleVars>>

NextShowcase ==
    \/ PageKeyDown
    \/ PageMasterCheckbox
    \/ PageSelectAllButton
    \/ PageClearButton
    \/ PageListToggle
    \/ PageModeChange

SpecShowcase == InitShowcase /\ [][NextShowcase]_vars

-----------------------------------------------------------------------------
(* Properties *)

\* the projection of the current render
ss == selectionState(selectedIds)

IsDisabled(id) == id \in ToSet(disabledIds)

\* the id a toggle call was given
ToggledId == lastCall.ids[1]

\* the toggle of the component at hand, applied to cur
ToggleOf(cur, id) ==
    IF IsController THEN toggle(cur, id)
    ELSE handleSelectionChange(cur, id, "toggle")

\* C1: in single mode, starting from the empty selection, the selection has
\* at most one member after every call (controller and list).
C1_SingleModeCardinality ==
    (mode = "single" /\ initialSelectedIds = <<>>) => Len(selectedIds) <= 1

\* a select of two ids in single mode that replaced an earlier selection
C1_Witness ==
    /\ mode = "single" /\ initialSelectedIds = <<>>
    /\ lastCall.op = "select" /\ Len(lastCall.ids) = 2
    /\ lastCall.ids[1] # lastCall.ids[2]
    /\ Len(before) = 1 /\ notified = 1
    /\ Len(selectedIds) = 1 /\ selectedIds # before

\* toggling the id of the last toggle once more gives back, as a set, the
\* selection the last toggle started from
ToggleRoundTrip ==
    ToSet(ToggleOf(selectedIds, ToggledId).sel) = ToSet(before)

\* C2 as claimed: for an id that is not disabled, Toggle(id) twice returns to
\* the starting selection, in single and in multi mode.
C2_ToggleSelfInverse ==
    (lastCall.op = "toggle" /\ ~IsDisabled(ToggledId)) => ToggleRoundTrip

\* C2 amended: for an id that is not disabled, Toggle(id) twice returns to the
\* starting selection in multi mode, and in single mode exactly when the
\* starting selection holds no id other than the toggled one.
C2_ToggleSelfInverseMulti ==
    (lastCall.op = "toggle" /\ ~IsDisabled(ToggledId)) =>
        (ToggleRoundTrip <=>
            (mode # "single" \/ ToSet(before) \subseteq {ToggledId}))

\* a toggle in multi mode that added an id to a non-empty selection
C2_Witness ==
    /\ lastCall.op = "toggle" /\ ~IsDisabled(ToggledId)
    /\ mode = "multi" /\ notified = 1
    /\ before # <<>> /\ ~includes(before, ToggledId)
    /\ includes(selectedIds, ToggledId)
    /\ ToggleRoundTrip

\* the last call was selectAll in multi mode on the empty selection
SelectAllFromEmpty ==
    /\ IsController
    /\ lastCall.op = "selectAll"
    /\ mode = "multi"
    /\ before = <<>>

\* entries of the universe that are not disabled
EnabledInUniverse ==
    Cardinality({i \in DOMAIN allIds : ~IsDisabled(allIds[i])})

IsDuplicateFree(arr) == Cardinality(ToSet(arr)) = Len(arr)

\* the constraints count what they enumerate
WellFormedConstraints ==
    /\ totalCount > Len(disabledIds)
    /\ IsDuplicateFree(disabledIds)
    /\ ToSet(disabledIds) \subseteq ToSet(allIds)
    /\ IsDuplicateFree(allIds)
    /\ Len(allIds) = totalCount

C4_DisabledExclusion ==
    /\ (IsController /\ lastCall.op = "select"
          /\ ToSet(lastCall.ids) \subseteq ToSet(disabledIds))
           => (selectedIds = before /\ notified = 0)
    /\ (lastCall.op = "toggle" /\ IsDisabled(ToggledId))
           => (selectedIds = before /\ notified = 0)

\* a select of disabled ids only, in multi mode, on a non-empty selection
C4_Witness ==
    /\ IsController /\ lastCall.op = "select" /\ mode = "multi"
    /\ lastCall.ids # <<>>
    /\ ToSet(lastCall.ids) \subseteq ToSet(disabledIds)
    /\ before # <<>>
    /\ selectedIds = before /\ notified = 0

\* C5 as claimed: a selected id that is disabled is removed by Deselect({id}),
\* by Clear and by Toggle(id), in the controller and in the list.
C5_RemovalNeverBlocked ==
    \A id \in ToSet(before) \cap ToSet(disabledIds) :
        (\/ (lastCall.op = "deselect" /\ includes(lastCall.ids, id))
         \/ lastCall.op = "clear"
         \/ (lastCall.op = "toggle" /\ ToggledId = id))
            => ~includes(selectedIds, id)

\* C5 amended: a selected id that is disabled is removed by the controller's
\* Deselect({id}) and Clear; Toggle(id), in the controller and in the list, is
\* a no-op on it and leaves it selected.
C5_RemovalByDeselectAndClear ==
    \A id \in ToSet(before) \cap ToSet(disabledIds) :
        /\ (IsController /\ lastCall.op = "deselect" /\ includes(lastCall.ids, id))
               => ~includes(selectedIds, id)
        /\ (IsController /\ lastCall.op = "clear") => ~includes(selectedIds, id)
        /\ (lastCall.op = "toggle" /\ ToggledId = id)
               => (selectedIds = before /\ notified = 0)

\* a deselect that removed a selected, disabled id
C5_Witness ==
    /\ IsController /\ lastCall.op = "deselect"
    /\ \E id \in ToSet(before) \cap ToSet(disabledIds) :
           includes(lastCall.ids, id) /\ ~includes(selectedIds, id)

\* C6: isAllSelected and isPartiallySelected are never both true.
C6_ProjectionExclusive ==
    ~(ss.isAllSelected /\ ss.isPartiallySelected)

\* all selected by count while the selection holds an id outside the universe
C6_Witness ==
    /\ IsController /\ lastCall.op = "select" /\ notified = 1
    /\ ss.isAllSelected
    /\ \E id \in ToSet(selectedIds) : id \notin ToSet(rangeIds(totalCount))

BothFlagsFalse == ~ss.isAllSelected /\ ~ss.isPartiallySelected

\* C7 as claimed: both flags are false exactly when enabledSelectedCount = 0
\* or enabledCount = 0.  Stated for the duplicate-free selections with
\* enabledCount >= 0, so that a violation rests neither on a negative
\* enabledCount nor on an id counted twice.
C7_BothFalseIffZero ==
    (ss.enabledCount >= 0 /\ IsDuplicateFree(selectedIds)) =>
        (BothFlagsFalse <=>
            (ss.enabledSelectedCount = 0 \/ ss.enabledCount = 0))

\* C7 amended: both flags are false exactly when enabledSelectedCount = 0,
\* enabledCount <= 0 or enabledSelectedCount > enabledCount.
C7_BothFalseIffZeroOrBeyond ==
    BothFlagsFalse <=>
        \/ ss.enabledSelectedCount = 0
        \/ ss.enabledCount <= 0
        \/ ss.enabledSelectedCount > ss.enabledCount

\* more enabled ids selected than the constraints count, after a select
C7_Witness ==
    /\ IsController /\ lastCall.op = "select" /\ notified = 1
    /\ ss.enabledCount > 0
    /\ ss.enabledSelectedCount > ss.enabledCount
    /\ IsDuplicateFree(selectedIds)
    /\ BothFlagsFalse

\* C8: enabledCount is totalCount - |disabledIds| clamped at zero, so it is
\* never negative.
C8_EnabledCountClamped ==
    /\ ss.enabledCount >= 0
    /\ ss.enabledCount =
           (IF totalCount > Len(disabledIds)
            THEN totalCount - Len(disabledIds) ELSE 0)

\* C9: Clear empties the selection from every start, reports action clear
\* without targetIds, and a second Clear gives the same selection.
C9_ClearEmptiesAndIsIdempotent ==
    (IsController /\ lastCall.op = "clear") =>
        /\ selectedIds = <<>>
        /\ notified = 1
        /\ event.action = "clear"
        /\ event.targetIds = {}
        /\ event.selectedIds = <<>>
        /\ clear(selectedIds).sel = selectedIds

\* a clear of a selection of two ids
C9_Witness ==
    /\ IsController /\ lastCall.op = "clear"
    /\ Len(before) >= 2
    /\ selectedIds = <<>>

PassedGuard ==
    CASE lastCall.op = "select" ->
             \E i \in DOMAIN lastCall.ids : ~IsDisabled(lastCall.ids[i])
      [] lastCall.op = "deselect" -> TRUE
      [] lastCall.op = "clear" -> TRUE
      [] lastCall.op = "selectAll" -> mode = "multi"
      [] lastCall.op = "toggle" -> mode # "none" /\ ~IsDisabled(ToggledId)
      [] OTHER -> FALSE

Universe ==
    IF availableIds # {} THEN UNION {ToSet(a) : a \in availableIds}
    ELSE {<<"0", "1", "2", "3", "4", "5", "6", "7", "8", "9">>[k] :
              k \in 1..totalCount}

\* the ids of the last request that are not disabled, in request order
ValidRequestIds == SelectSeq(lastCall.ids, LAMBDA id : ~IsDisabled(id))

C12_SelectMultiUnion ==
    (IsController /\ lastCall.op = "select" /\ mode = "multi"
       /\ ValidRequestIds # <<>>) =>
        /\ ToSet(selectedIds) = ToSet(before) \cup ToSet(ValidRequestIds)
        /\ IsDuplicateFree(selectedIds)
        /\ ToSet(before) \subseteq ToSet(selectedIds)

\* a select in multi mode whose request names an id twice, one of them new
C12_Witness ==
    /\ IsController /\ lastCall.op = "select" /\ mode = "multi"
    /\ Len(lastCall.ids) = 2 /\ lastCall.ids[1] = lastCall.ids[2]
    /\ ~IsDisabled(lastCall.ids[1])
    /\ before # <<>> /\ ~includes(before, lastCall.ids[1])
    /\ Len(selectedIds) = Len(before) + 1

\* C13: a Select in single mode stores the singleton of the first id that
\* is not disabled and reports action select with the whole filtered list
\* as targetIds.
C13_SelectSingleFirstWins ==
    (IsController /\ lastCall.op = "select" /\ mode = "single"
       /\ ValidRequestIds # <<>>) =>
        /\ selectedIds = <<ValidRequestIds[1]>>
        /\ notified = 1
        /\ event.action = "select"
        /\ event.targetIds = {ValidRequestIds}
        /\ event.selectedIds = selectedIds

\* a select of two distinct enabled ids in single mode over another selection
C13_Witness ==
    /\ IsController /\ lastCall.op = "select" /\ mode = "single"
    /\ Len(ValidRequestIds) = 2
    /\ ValidRequestIds[1] # ValidRequestIds[2]
    /\ before = <<ValidRequestIds[2]>>
    /\ selectedIds = <<ValidRequestIds[1]>>
    /\ event.targetIds = {lastCall.ids}

\* C14: Deselect stores current minus ids with no disabled filtering, adds
\* nothing, and reports action deselect with the original ids as targetIds.
C14_DeselectRemoves ==
    (IsController /\ lastCall.op = "deselect") =>
        /\ selectedIds =
               SelectSeq(before, LAMBDA id : id \notin ToSet(lastCall.ids))
        /\ ToSet(selectedIds) \subseteq ToSet(before)
        /\ notified = 1
        /\ event.action = "deselect"
        /\ event.targetIds = {lastCall.ids}
        /\ event.selectedIds = selectedIds

\* a deselect naming a selected disabled id and an id that was not selected
C14_Witness ==
    /\ IsController /\ lastCall.op = "deselect"
    /\ \E id \in ToSet(lastCall.ids) :
           IsDisabled(id) /\ includes(before, id) /\ ~includes(selectedIds, id)
    /\ \E id \in ToSet(lastCall.ids) : ~includes(before, id)
    /\ event.targetIds = {lastCall.ids}

\* C15: every record a listener receives carries select, deselect, selectAll
\* or clear; a Toggle of an enabled id reports deselect when the id was
\* selected and select when it was not (controller and list).
C15_ToggleDispatches ==
    notified = 1 =>
        /\ event.action \in {"select", "deselect", "selectAll", "clear"}
        /\ lastCall.op = "toggle" =>
               event.action =
                   (IF includes(before, ToggledId) THEN "deselect" ELSE "select")

\* a list toggle of a selected id, reported as deselect
C15_Witness ==
    /\ component = "list" /\ lastCall.op = "toggle" /\ notified = 1
    /\ includes(before, ToggledId)
    /\ event.action = "deselect"
    /\ event.targetId = {ToggledId}

\* C16: SelectAll in single mode leaves the selection as it was and does not
\* invoke the listener.
C16_SelectAllSingleNoop ==
    (IsController /\ lastCall.op = "selectAll" /\ mode = "single") =>
        (selectedIds = before /\ notified = 0)

\* a selectAll in single mode with one id selected and ids left to select
C16_Witness ==
    /\ IsController /\ lastCall.op = "selectAll" /\ mode = "single"
    /\ Len(before) = 1 /\ totalCount = 2 /\ disabledIds = <<>>
    /\ selectedIds = before /\ notified = 0

\* C17: a Select puts every requested id that is not disabled into the
\* selection (the first such id in single mode), whether or not the id
\* belongs to the universe.
C17_SelectUnvalidated ==
    (IsController /\ lastCall.op = "select" /\ ValidRequestIds # <<>>) =>
        /\ notified = 1
        /\ includes(selectedIds, ValidRequestIds[1])
        /\ mode = "multi" =>
               ToSet(ValidRequestIds) \subseteq ToSet(selectedIds)

\* a select of an id outside the universe that made it a member
C17_Witness ==
    /\ IsController /\ lastCall.op = "select" /\ notified = 1
    /\ totalCount > 0
    /\ \E id \in ToSet(lastCall.ids) :
           /\ id \notin Universe /\ ~IsDisabled(id)
           /\ ~includes(before, id) /\ includes(selectedIds, id)

\* the intent the select-all gestures must end in
SelectAllOrClear ==
    IF selectionState(before).isAllSelected THEN "clear" ELSE "selectAll"

\* the last gesture was Ctrl/Cmd+A
IsCtrlA ==
    gesture.kind = "key" /\ gesture.key \in {"a", "A"} /\ gesture.modifier

\* the last gesture called no intent
NothingDone ==
    lastCall.op = "none" /\ selectedIds = before /\ notified = 0

\* C20: in multi mode Ctrl/Cmd+A and the master checkbox call Clear when
\* the selection before the gesture was projected as all-selected and
\* SelectAll otherwise; in single mode Ctrl/Cmd+A calls nothing and the
\* master checkbox cannot be changed; Escape calls Clear in both modes.
C20_SelectAllGestures ==
    /\ (IsController /\ IsCtrlA /\ mode = "multi")
           => lastCall.op = SelectAllOrClear
    /\ (IsController /\ IsCtrlA /\ mode = "single") => NothingDone
    /\ (IsController /\ gesture.kind = "checkbox")
           => (mode = "multi" /\ lastCall.op = SelectAllOrClear)
    /\ (IsController /\ gesture.kind = "key" /\ gesture.key = "Escape")
           => (lastCall.op = "clear" /\ selectedIds = <<>> /\ notified = 1)

C20_Witness ==
    /\ IsController
    /\ IsCtrlA
    /\ mode = "multi"
    /\ selectionState(before).isAllSelected
    /\ before # <<>>
    /\ lastCall.op = "clear"
    /\ selectedIds = <<>>

\* the mode the last mode button asked for
NewMode == lastCall.ids[1]

C19_PageSingleCardinality ==
    /\ mode = "single" => Len(showcaseSelectedIds) <= 1
    /\ reported.mode = "single" => Len(reported.selectedIds) <= 1

\* C21: whenever SelectAll fires the listener, in either controller
\* variant, the delivered record has action selectAll and carries neither
\* targetIds nor a targetId.
C21_SelectAllNoTargets ==
    (IsController /\ lastCall.op = "selectAll" /\ notified = 1) =>
        /\ event.action = "selectAll"
        /\ event.targetIds = {}
        /\ event.targetId = {}

C21_Witness ==
    /\ component = "showcase"
    /\ availableIds # {}
    /\ lastCall.op = "selectAll"
    /\ notified = 1
    /\ selectedIds # <<>>
    /\ event.action = "selectAll"
    /\ event.targetIds = {}

\* what the controller's toggle and the list's toggle make of the
\* selection before the last call
ByController == toggle(before, ToggledId)

ByList == handleSelectionChange(before, ToggledId, "toggle")

\* C22: for a toggle in single or multi mode, made on either component,
\* the controller's toggle and the list's toggle give the same next
\* selection as a set, the same reported action and the same decision to
\* fire the listener, and the component did what both say.
C22_ToggleSameInBoth ==
    (lastCall.op = "toggle" /\ mode \in {"single", "multi"}) =>
        /\ ToSet(ByList.sel) = ToSet(ByController.sel)
        /\ ByList.ev.action = ByController.ev.action
        /\ ByList.fired = ByController.fired
        /\ ToSet(selectedIds) = ToSet(ByList.sel)
        /\ event.action = ByList.ev.action
        /\ notified = ByList.fired

\* a list toggle whose stored array differs from the controller's while
\* holding the same ids
C22_Witness ==
    /\ component = "list"
    /\ lastCall.op = "toggle"
    /\ mode = "multi"
    /\ notified = 1
    /\ event.action = "select"
    /\ selectedIds = ByList.sel
    /\ selectedIds # ByController.sel
    /\ ToSet(selectedIds) = ToSet(ByController.sel)

\* C23: from a duplicate-free selection, whatever intents are called and
\* whatever the available list holds, the selection array holds each id
\* at most once and selectedCount is the number of distinct selected ids.
C23_SetSemantics ==
    /\ IsDuplicateFree(selectedIds)
    /\ ss.selectedCount = Cardinality(ToSet(selectedIds))

\* the selection the component was created with holds no disabled id
SeedEnabled == ToSet(initialSelectedIds) \cap ToSet(disabledIds) = {}

\* C24: when the initial selection holds no disabled id, no sequence of
\* requests puts a disabled id into the selection, and selectedCount
\* equals enabledSelectedCount in every reachable state.
C24_DisabledNeverEnters ==
    SeedEnabled =>
        /\ ToSet(selectedIds) \cap ToSet(disabledIds) = {}
        /\ ss.selectedCount = ss.enabledSelectedCount

C24_Witness ==
    /\ SeedEnabled
    /\ IsController
    /\ lastCall.op = "selectAll"
    /\ notified = 1
    /\ \E id \in ToSet(allIds) : IsDisabled(id)
    /\ selectedIds # <<>>
    /\ ToSet(selectedIds) \cap ToSet(disabledIds) = {}

\* C25: whenever a call invokes the listener, in the controller or in
\* the list, the selectedIds of the delivered record is the value the
\* same call stored.
C25_ListenerSeesStored ==
    notified = 1 => event.selectedIds = selectedIds

C25_Witness ==
    /\ IsController
    /\ lastCall.op = "deselect"
    /\ notified = 1
    /\ selectedIds # before
    /\ selectedIds # <<>>
    /\ event.selectedIds = selectedIds

\* the pending call added ids: its listener was told action select
IsAdditive(call) == call.ev.action = "select"

\* the ids an additive call asked for and was allowed to add
AddedBy(call) == ToSet(filterNotIn(call.ids, disabledIds))

\* C26: in multi mode, when every call made since the last render was
\* additive and there were at least two of them, the stored selection
\* holds the ids of all these calls.
C26_NoLostUpdate ==
    (/\ mode = "multi"
     /\ Len(pending) >= 2
     /\ \A i \in DOMAIN pending : IsAdditive(pending[i]))
        => \A i \in DOMAIN pending : AddedBy(pending[i]) \subseteq ToSet(selectedIds)

\* C27: on the page, the page's cell, the controller's cell and the
\* list's cell hold the same set of ids in every reachable state.
C27_CellsAgree ==
    /\ ToSet(selectedIds) = ToSet(showcaseSelectedIds)
    /\ ToSet(listSelectedIds) = ToSet(showcaseSelectedIds)

\* the controller variant the component is not
OtherVariant == IF component = "registry" THEN "showcase" ELSE "registry"

\* selectAll as the given variant runs it
selectAllBy(variant, cur) ==
    IF mode = "single" THEN Unchanged(cur)
    ELSE LET enabledIds == filterNotIn(allIdsOf(variant), disabledIds)
         IN  Fired(enabledIds, Outcome(enabledIds, "selectAll", {}))

\* the result of the last call had the given variant received it
ResultBy(variant) ==
    CASE lastCall.op = "select" -> select(before, lastCall.ids)
      [] lastCall.op = "deselect" -> deselect(before, lastCall.ids)
      [] lastCall.op = "selectAll" -> selectAllBy(variant, before)
      [] lastCall.op = "clear" -> clear(before)
      [] lastCall.op = "toggle" -> toggle(before, ToggledId)
      [] OTHER -> Unchanged(before)

C29_NoneModeFrame ==
    (component = "list" /\ mode = "none") =>
        /\ selectedIds = initialSelectedIds
        /\ notified = 0
        /\ event = NoEvent
        /\ gesture.kind # "itemCheckbox"

\* a click in none mode on a selected item: only onItemClick fired
C29_Witness ==
    /\ component = "list"
    /\ mode = "none"
    /\ gesture.kind = "itemClick"
    /\ itemClicked # {}
    /\ itemClicked \subseteq ToSet(selectedIds)
    /\ selectedIds = initialSelectedIds
    /\ notified = 0

\* package.json is missing or its text cannot be parsed
CannotBeParsed == ~capture.exists \/ ~capture.text.json

\* C30: when package.json is missing or cannot be parsed the run gets no
\* further than reading it, writes neither file and, once ended, has exit
\* code 1 and reported no success; a run that reported success has
\* written both files, pre-upgrade-state.json first, and nothing else.
C30_CaptureScript ==
    /\ (capture.pc # "idle" /\ CannotBeParsed) =>
           /\ capture.pc \in {"validate", "read", "exited"}
           /\ capture.written = <<>>
           /\ capture.success = {}
           /\ capture.pc = "exited" => capture.exitCode = {1}
    /\ capture.success # {} =>
           capture.written = <<"pre-upgrade-state.json", "package.json.before">>

\* a run over a package.json that is there but is not JSON, in a
\* directory that holds the output of an earlier run
C30_Witness ==
    /\ capture.pc = "exited"
    /\ capture.exists
    /\ ~capture.text.json
    /\ capture.stateFileBefore
    /\ capture.exitCode = {1}
    /\ capture.written = <<>>

====
